---- MODULE Spec2Model ----
(***************************************************************************)
(* Model of the prompt element type registry and the prompt element data   *)
(* model of cmd-prompt-generator:                                          *)
(*   src/src/lib/enum/promptElementType.ts                                 *)
(*     PromptElementType, RemoveBackspaces, PROMPT_ELEMENT_TYPES,           *)
(*     PromptElement                                                        *)
(*                                                                         *)
(* A JavaScript string is a sequence of one-character strings, so that      *)
(* indexing, searching and replacing are computed character by character.  *)
(***************************************************************************)
EXTENDS Integers, Sequences, FiniteSets

VARIABLES
    \* RemoveBackspaces(str): the argument of the running call, the local
    \* variable str, the position of the call, the number of calls made so
    \* far and the value the first call returned
    arg, str, pc, ncalls, first,
    \* the last call of a descriptor's generator: which descriptor, which
    \* generator ("char" or "preview"), the argument and the outcome;
    \* now is the value of `new Date()`
    call, now,
    \* one PromptElement, the descriptor the constructor was last given and
    \* the last operation on the element
    elem, requested, op,
    \* the composed prompt: a sequence of PromptElement
    prompt

vars == <<arg, str, pc, ncalls, first, call, now, elem, requested, op, prompt>>
rbVars == <<arg, str, pc, ncalls, first>>
genVars == <<call, now>>
instVars == <<elem, requested, op>>

----------------------------------------------------------------------------
(* Characters *)

\* U+0008, written '\b' and /\x08/ in the source
BS == "\\b"
\* U+000A
NL == "\n"
\* U+000D
CR == "\r"
\* U+0060, the backtick
BACKTICK == "U+0060"
\* U+2028 LINE SEPARATOR and U+2029 PARAGRAPH SEPARATOR
LS == "U+2028"
PS == "U+2029"

\* The characters the regular expression atom `.` does not match (the
\* pattern has no `s` flag).
LineTerminators == {NL, CR, LS, PS}

----------------------------------------------------------------------------
(* JavaScript values: a string, undefined, or an abrupt completion *)

String(chars) == [type |-> "string", chars |-> chars]
Undefined == [type |-> "undefined", chars |-> <<>>]
TypeError == [type |-> "TypeError", chars |-> <<>>]

\* args.id for an object args of type Record<string, string>
Property(args, id) ==
    IF id \in DOMAIN args THEN String(args[id]) ELSE Undefined

\* v ?? d
NullishCoalesce(v, d) == IF v.type = "undefined" THEN d ELSE v

\* `${v}` inside a template literal
TemplateToString(v) ==
    IF v.type = "undefined"
    THEN <<"u", "n", "d", "e", "f", "i", "n", "e", "d">>
    ELSE v.chars

\* The empty object {}
EmptyObject == [id \in {} |-> <<>>]

----------------------------------------------------------------------------
(* RemoveBackspaces *)

\* str.indexOf(c): the 0-based index of the first occurrence, or -1
IndexOf(s, c) ==
    IF \E i \in 1..Len(s) : s[i] = c
    THEN (CHOOSE i \in 1..Len(s) :
            s[i] = c /\ \A j \in 1..(i - 1) : s[j] # c) - 1
    ELSE -1

\* The same for /.\x08/, where the character in front is not optional.
MatchLengthAtCharacterRequired(s, p) ==
    IF p + 1 <= Len(s) /\ s[p] \notin LineTerminators /\ s[p + 1] = BS
    THEN 2
    ELSE -1

\* The length of the match of /.?\x08/ that starts at position p (1-based),
\* or -1 when there is none. `.?` is greedy: it first takes one character
\* that is no line terminator, and gives it back when no \x08 follows.
MatchLengthAt(s, p) ==
    IF p + 1 <= Len(s) /\ s[p] \notin LineTerminators /\ s[p + 1] = BS
    THEN 2
    ELSE IF p <= Len(s) /\ s[p] = BS THEN 1 ELSE -1

\* str.replace(/.?\x08/, ''): the leftmost match is deleted; a string
\* without a match is returned as it is
ReplaceFirstMatch(s) ==
    IF \E p \in 1..Len(s) : MatchLengthAt(s, p) # -1
    THEN LET p == CHOOSE q \in 1..Len(s) :
                    /\ MatchLengthAt(s, q) # -1
                    /\ \A r \in 1..(q - 1) : MatchLengthAt(s, r) = -1
             n == MatchLengthAt(s, p)
         IN  SubSeq(s, 1, p - 1) \o SubSeq(s, p + n, Len(s))
    ELSE s

\* The condition with > 0 in place of !== -1: a backspace at index 0 is
\* not seen.
LoopConditionPositiveIndex(s) == IndexOf(s, BS) > 0

\* str.indexOf('\b') !== -1
LoopCondition(s) == IndexOf(s, BS) # -1

\* The statement with `if` in place of `while`: the body runs once at most.
IfInsteadOfWhile(s) ==
    IF IndexOf(s, BS) # -1
    THEN [str |-> ReplaceFirstMatch(s), pc |-> "return"]
    ELSE [str |-> s, pc |-> "return"]

\* One evaluation of `while (str.indexOf('\b') !== -1) { str = ... }`:
\* the value of str and where control goes next.
WhileIteration(s) ==
    IF LoopCondition(s)
    THEN [str |-> ReplaceFirstMatch(s), pc |-> "while"]
    ELSE [str |-> s, pc |-> "return"]

\* The function as a whole, for the callers inside the catalog.
RECURSIVE RemoveBackspaces(_)
RemoveBackspaces(s) ==
    LET r == WhileIteration(s)
    IN  IF r.pc = "while" THEN RemoveBackspaces(r.str) ELSE r.str

----------------------------------------------------------------------------
(* timeFormat (d3-time-format), for the directives the catalog uses *)

Digit(d) == <<"0", "1", "2", "3", "4", "5", "6", "7", "8", "9">>[d + 1]

RECURSIVE Decimal(_)
Decimal(n) ==
    IF n < 10 THEN <<Digit(n)>> ELSE Decimal(n \div 10) \o <<Digit(n % 10)>>

\* n in decimal, padded on the left with fill to the given width
Pad(n, fill, width) ==
    LET d == Decimal(n)
    IN  [i \in 1..(width - Len(d)) |-> fill] \o d

\* The values `new Date()` takes in the model.
Dates ==
    { [year |-> 2023, month |-> 7, date |-> 4,
       hours |-> 9, minutes |-> 5, seconds |-> 3, milliseconds |-> 7],
      [year |-> 2024, month |-> 12, date |-> 25,
       hours |-> 13, minutes |-> 45, seconds |-> 59, milliseconds |-> 123] }

\* timeFormat('%x'): the locale's date, %-m/%-d/%Y in the default locale
FormatLocaleDate(d) ==
    Decimal(d.month) \o <<"/">> \o Decimal(d.date) \o <<"/">>
        \o Pad(d.year, "0", 4)

\* timeFormat('%_H:%M'): space-padded hour, zero-padded minute
FormatHoursMinutes(d) ==
    Pad(d.hours, " ", 2) \o <<":">> \o Pad(d.minutes, "0", 2)

\* timeFormat('%_H:%M:%S')
FormatHoursMinutesSeconds(d) ==
    FormatHoursMinutes(d) \o <<":">> \o Pad(d.seconds, "0", 2)

\* timeFormat('%_H:%M:%S.%L'): %L is the milliseconds in three digits
FormatHoursMinutesSecondsMillis(d) ==
    FormatHoursMinutesSeconds(d) \o <<".">> \o Pad(d.milliseconds, "0", 3)

----------------------------------------------------------------------------
(* The generators of the catalog that are functions *)

CurrentDatePreview(d) == String(FormatLocaleDate(d))

TimeHundredthsPreview(d) ==
    String(RemoveBackspaces(FormatHoursMinutesSecondsMillis(d) \o <<BS>>))

TimePreview(d) == String(FormatHoursMinutesSeconds(d))

TimeNoSecondsPreview(d) == String(FormatHoursMinutes(d))

\* (args) => `%${args.command ?? ''}%`
EnvironmentVariableChar(args) ==
    String(<<"%">>
           \o TemplateToString(NullishCoalesce(Property(args, "command"), String(<<>>)))
           \o <<"%">>)

\* The characters of the class [$`\\!]
EscapedCharacters == {"$", BACKTICK, "\\", "!"}

\* s.replace(/([$`\\!])/g, '\\$1'): every match is replaced by a backslash
\* followed by the match
RECURSIVE ReplaceAllEscaped(_)
ReplaceAllEscaped(s) ==
    IF s = <<>>
    THEN <<>>
    ELSE (IF Head(s) \in EscapedCharacters
          THEN <<"\\", Head(s)>>
          ELSE <<Head(s)>>) \o ReplaceAllEscaped(Tail(s))

\* The same without the g flag: only the first match is replaced.
RECURSIVE ReplaceFirstEscaped(_)
ReplaceFirstEscaped(s) ==
    IF s = <<>>
    THEN <<>>
    ELSE IF Head(s) \in EscapedCharacters
         THEN <<"\\", Head(s)>> \o Tail(s)
         ELSE <<Head(s)>> \o ReplaceFirstEscaped(Tail(s))

\* v.replace(...) for a value v: undefined has no method replace
ReplaceMethod(v) ==
    IF v.type = "string" THEN String(ReplaceAllEscaped(v.chars)) ELSE TypeError

\* The char generator of Text without the g flag.
TextCharFirstOnly(args) ==
    LET v == NullishCoalesce(Property(args, "text"), String(<<>>))
    IN  IF v.type = "string" THEN String(ReplaceFirstEscaped(v.chars))
        ELSE TypeError

\* The char generator of Text without `?? ''`.
TextCharNoDefault(args) == ReplaceMethod(Property(args, "text"))

\* (args) => (args.text ?? '').replace(/([$`\\!])/g, '\\$1')
TextChar(args) ==
    ReplaceMethod(NullishCoalesce(Property(args, "text"), String(<<>>)))

\* (args) => args.text ?? ''
TextPreview(args) == NullishCoalesce(Property(args, "text"), String(<<>>))

----------------------------------------------------------------------------
(* PromptElementType *)

\* A constructor argument `char` or `preview`: a string or a function.
StringArg(chars) == [isString |-> TRUE, chars |-> chars, fn |-> ""]
FunctionArg(fn) == [isString |-> FALSE, chars |-> <<>>, fn |-> fn]

\* The constructor without the assignment `this.name = name`.
PromptElementTypeNameNotAssigned(name, char, parameters, printable, description, preview) ==
    [name |-> "",
     char |-> IF char.isString
              THEN [constant |-> TRUE, chars |-> char.chars, fn |-> ""]
              ELSE [constant |-> FALSE, chars |-> <<>>, fn |-> char.fn],
     parameters |-> parameters,
     printable |-> printable,
     description |-> description,
     preview |-> IF preview.isString
                 THEN [constant |-> TRUE, chars |-> preview.chars, fn |-> ""]
                 ELSE [constant |-> FALSE, chars |-> <<>>, fn |-> preview.fn]]

\* The constructor: a string becomes the constant function () => string,
\* a function is kept.
PromptElementType(name, char, parameters, printable, description, preview) ==
    [name |-> name,
     char |-> IF char.isString
              THEN [constant |-> TRUE, chars |-> char.chars, fn |-> ""]
              ELSE [constant |-> FALSE, chars |-> <<>>, fn |-> char.fn],
     parameters |-> parameters,
     printable |-> printable,
     description |-> description,
     preview |-> IF preview.isString
                 THEN [constant |-> TRUE, chars |-> preview.chars, fn |-> ""]
                 ELSE [constant |-> FALSE, chars |-> <<>>, fn |-> preview.fn]]

\* The call f(args) of a generator f, `new Date()` evaluating to d.
Invoke(f, args, d) ==
    IF f.constant
    THEN String(f.chars)
    ELSE CASE f.fn = "CurrentDatePreview" -> CurrentDatePreview(d)
           [] f.fn = "TimeHundredthsPreview" -> TimeHundredthsPreview(d)
           [] f.fn = "TimePreview" -> TimePreview(d)
           [] f.fn = "TimeNoSecondsPreview" -> TimeNoSecondsPreview(d)
           [] f.fn = "EnvironmentVariableChar" -> EnvironmentVariableChar(args)
           [] f.fn = "TextChar" -> TextChar(args)
           [] f.fn = "TextPreview" -> TextPreview(args)

PROMPT_ELEMENT_TYPES ==
  <<
    \* lines 108-110
    PromptElementType("Current Date", StringArg(<<"$", "d">>),
        <<>>, TRUE,
        "The date, in your local format (as displayed in taskbar).",
        FunctionArg("CurrentDatePreview")),
    \* lines 125-128
    PromptElementType("Time with 100th-seconds", StringArg(<<"$", "t">>),
        <<>>, TRUE,
        "The time, in 24-hour format HH:MM:SS.ss with 100-th second precision (U+0060echo %time%U+0060).",
        FunctionArg("TimeHundredthsPreview")),
    \* lines 129-131
    PromptElementType("Time", StringArg(<<"$", "t", "$", "h", "$", "h", "$", "h">>),
        <<>>, TRUE,
        "The time, in 24-hour HH:MM:SS format.",
        FunctionArg("TimePreview")),
    \* lines 132-134
    PromptElementType("Time (w/o seconds)", StringArg(<<"$", "t", "$", "h", "$", "h", "$", "h", "$", "h", "$", "h", "$", "h">>),
        <<>>, TRUE,
        "The time, in 24-hour HH:MM format.",
        FunctionArg("TimeNoSecondsPreview")),
    \* lines 135-135
    PromptElementType("Username", StringArg(<<"%", "u", "s", "e", "r", "n", "a", "m", "e", "%">>),
        <<>>, TRUE,
        "The username of the current user.",
        StringArg(<<"u", "s", "e", "r", "n", "a", "m", "e">>)),
    \* lines 136-136
    PromptElementType("Hostname", StringArg(<<"%", "c", "o", "m", "p", "u", "t", "e", "r", "n", "a", "m", "e", "%">>),
        <<>>, TRUE,
        "The hostname.",
        StringArg(<<"h", "o", "s", "t", "-", "p", "c", "-", "n", "a", "m", "e">>)),
    \* lines 137-139
    PromptElementType("Remote Drive Name", StringArg(<<"$", "m">>),
        <<>>, TRUE,
        "Remote name associated with the current drive letter or empty string if current drive is not a network drive.",
        StringArg(<<"r", "e", "m", "o", "t", "e", "-", "d", "r", "i", "v", "e", "-", "n", "a", "m", "e">>)),
    \* lines 140-142
    PromptElementType("Current Drive and Path", StringArg(<<"$", "p">>),
        <<>>, TRUE,
        "The current drive and path.",
        StringArg(<<"X", ":", "\\", "B", "i", "g", " ", "F", "o", "l", "d", "e", "r", "\\", "c", "u", "r", "r", "e", "n", "t", "_", "f", "o", "l", "d", "e", "r">>)),
    \* lines 143-145
    PromptElementType("Current Drive", StringArg(<<"$", "n">>),
        <<>>, TRUE,
        "The current drive letter.",
        StringArg(<<"X">>)),
    \* lines 146-146
    PromptElementType("Newline", StringArg(<<"$", "_">>),
        <<>>, FALSE,
        "A newline.",
        StringArg(<<NL>>)),
    \* lines 148-148
    PromptElementType("Error Level", StringArg(<<"%", "e", "r", "r", "o", "r", "l", "e", "v", "e", "l", "%">>),
        <<>>, TRUE,
        "Error level of the last run command.",
        StringArg(<<"0">>)),
    \* lines 149-150
    PromptElementType("Windows Version", StringArg(<<"$", "v">>),
        <<>>, TRUE,
        "Windows version number with build.",
        StringArg(<<"M", "i", "c", "r", "o", "s", "o", "f", "t", " ", "W", "i", "n", "d", "o", "w", "s", " ", "[", "V", "e", "r", "s", "i", "o", "n", " ", "1", "0", ".", "0", ".", "1", "9", "0", "4", "5", ".", "3", "2", "0", "8", "]">>)),
    \* lines 168-175
    PromptElementType("Environment Variable", FunctionArg("EnvironmentVariableChar"),
        <<[id |-> "envvar", label |-> "Env Var Name"]>>, TRUE,
        "A custom environment variable.",
        StringArg(<<"e", "x", "a", "m", "p", "l", "e", " ", "o", "u", "t", "p", "u", "t">>)),
    \* lines 176-176
    PromptElementType("U+23B5", StringArg(<<"$", "s">>),
        <<>>, FALSE,
        "Space.",
        StringArg(<<" ">>)),
    \* lines 177-177
    PromptElementType("~", StringArg(<<"~">>),
        <<>>, TRUE,
        "Tilde.",
        StringArg(<<"~">>)),
    \* lines 178-178
    PromptElementType("!", StringArg(<<"!">>),
        <<>>, TRUE,
        "Exclamation mark.",
        StringArg(<<"!">>)),
    \* lines 179-179
    PromptElementType("?", StringArg(<<"?">>),
        <<>>, TRUE,
        "Question mark.",
        StringArg(<<"?">>)),
    \* lines 180-180
    PromptElementType("@", StringArg(<<"@">>),
        <<>>, TRUE,
        "Ampersat.",
        StringArg(<<"@">>)),
    \* lines 181-181
    PromptElementType("#", StringArg(<<"#">>),
        <<>>, TRUE,
        "Hash.",
        StringArg(<<"#">>)),
    \* lines 182-182
    PromptElementType("$", StringArg(<<"$", "$">>),
        <<>>, TRUE,
        "Dollar sign.",
        StringArg(<<"$">>)),
    \* lines 183-183
    PromptElementType("%", StringArg(<<"%">>),
        <<>>, TRUE,
        "Percent.",
        StringArg(<<"%">>)),
    \* lines 184-184
    PromptElementType("^", StringArg(<<"^">>),
        <<>>, TRUE,
        "Caret.",
        StringArg(<<"^">>)),
    \* lines 185-185
    PromptElementType("&", StringArg(<<"$", "a">>),
        <<>>, TRUE,
        "Ampersand.",
        StringArg(<<"&">>)),
    \* lines 186-186
    PromptElementType("*", StringArg(<<"*">>),
        <<>>, TRUE,
        "Asterisk.",
        StringArg(<<"*">>)),
    \* lines 187-187
    PromptElementType("(", StringArg(<<"$", "c">>),
        <<>>, TRUE,
        "Open parenthesis.",
        StringArg(<<"(">>)),
    \* lines 188-188
    PromptElementType(")", StringArg(<<"$", "f">>),
        <<>>, TRUE,
        "Close parenthesis.",
        StringArg(<<")">>)),
    \* lines 189-189
    PromptElementType("{", StringArg(<<"{">>),
        <<>>, TRUE,
        "Open curly bracket.",
        StringArg(<<"{">>)),
    \* lines 190-190
    PromptElementType("}", StringArg(<<"}">>),
        <<>>, TRUE,
        "Close curly bracket.",
        StringArg(<<"}">>)),
    \* lines 191-191
    PromptElementType("[", StringArg(<<"[">>),
        <<>>, TRUE,
        "Open bracket.",
        StringArg(<<"[">>)),
    \* lines 192-192
    PromptElementType("]", StringArg(<<"]">>),
        <<>>, TRUE,
        "Close bracket.",
        StringArg(<<"]">>)),
    \* lines 193-193
    PromptElementType("-", StringArg(<<"-">>),
        <<>>, TRUE,
        "Hyphen.",
        StringArg(<<"-">>)),
    \* lines 194-194
    PromptElementType("_", StringArg(<<"_">>),
        <<>>, TRUE,
        "Underscore.",
        StringArg(<<"_">>)),
    \* lines 195-195
    PromptElementType("+", StringArg(<<"+">>),
        <<>>, TRUE,
        "Plus.",
        StringArg(<<"+">>)),
    \* lines 196-196
    PromptElementType("=", StringArg(<<"$", "q">>),
        <<>>, TRUE,
        "Equal.",
        StringArg(<<"=">>)),
    \* lines 197-197
    PromptElementType("/", StringArg(<<"/">>),
        <<>>, TRUE,
        "Forward slash.",
        StringArg(<<"/">>)),
    \* lines 198-198
    PromptElementType("\\", StringArg(<<"\\", "\\">>),
        <<>>, TRUE,
        "Backslash.",
        StringArg(<<"\\">>)),
    \* lines 199-199
    PromptElementType("|", StringArg(<<"$", "b">>),
        <<>>, TRUE,
        "Pipe.",
        StringArg(<<"|">>)),
    \* lines 200-200
    PromptElementType(",", StringArg(<<",">>),
        <<>>, TRUE,
        "Comma.",
        StringArg(<<",">>)),
    \* lines 201-201
    PromptElementType(".", StringArg(<<".">>),
        <<>>, TRUE,
        "Period.",
        StringArg(<<".">>)),
    \* lines 202-202
    PromptElementType(":", StringArg(<<":">>),
        <<>>, TRUE,
        "Colon.",
        StringArg(<<":">>)),
    \* lines 203-203
    PromptElementType(";", StringArg(<<";">>),
        <<>>, TRUE,
        "Semicolon.",
        StringArg(<<";">>)),
    \* lines 204-204
    PromptElementType("\"", StringArg(<<"\"">>),
        <<>>, TRUE,
        "Quotation mark.",
        StringArg(<<"\"">>)),
    \* lines 205-205
    PromptElementType("U+232B", StringArg(<<"$", "h">>),
        <<>>, FALSE,
        "Backspace.",
        StringArg(<<BS>>)),
    \* lines 207-207
    PromptElementType("'", StringArg(<<"'">>),
        <<>>, TRUE,
        "Single quote.",
        StringArg(<<"'">>)),
    \* lines 208-208
    PromptElementType("<", StringArg(<<"$", "l">>),
        <<>>, TRUE,
        "Less than.",
        StringArg(<<"<">>)),
    \* lines 209-209
    PromptElementType(">", StringArg(<<"$", "g">>),
        <<>>, TRUE,
        "Greater than.",
        StringArg(<<">">>)),
    \* lines 210-218
    PromptElementType("Text", FunctionArg("TextChar"),
        <<[id |-> "text", label |-> "Text"]>>, TRUE,
        "A custom text.",
        FunctionArg("TextPreview"))
  >>

\* The index of the descriptor with the given name.
TypeNamed(name) ==
    CHOOSE t \in DOMAIN PROMPT_ELEMENT_TYPES :
        PROMPT_ELEMENT_TYPES[t].name = name

\* The ids of a descriptor's parameters list.
ParameterIds(t) ==
    { PROMPT_ELEMENT_TYPES[t].parameters[k].id :
        k \in DOMAIN PROMPT_ELEMENT_TYPES[t].parameters }

----------------------------------------------------------------------------
(* PromptElement *)

\* The keys of Record<displayAttribute, boolean>
DisplayAttributes ==
    {"bold", "dim", "italic", "underline", "blink", "reverse", "overline"}

Null == "null"

\* The values of the Color enumeration the model uses.
Colors == {"Red"}

\* A constructor that starts with one backspace.
PromptElementOneBackspace(type) ==
    [type |-> type,
     parameters |-> EmptyObject,
     attributes |-> [a \in DisplayAttributes |-> FALSE],
     backspaces |-> 1,
     foregroundColor |-> Null,
     backgroundColor |-> Null]

\* constructor(type): an element without any parameters or styling. A
\* descriptor is referred to by its index in PROMPT_ELEMENT_TYPES.
PromptElement(type) ==
    [type |-> type,
     parameters |-> EmptyObject,
     attributes |-> [a \in DisplayAttributes |-> FALSE],
     backspaces |-> 0,
     foregroundColor |-> Null,
     backgroundColor |-> Null]

\* obj[id] = value
Assign(obj, id, value) ==
    [k \in DOMAIN obj \cup {id} |-> IF k = id THEN value ELSE obj[k]]

\* renderChar() and renderPreview() of an element:
\* type.char(parameters) and type.preview(parameters)
RenderChar(e) == Invoke(PROMPT_ELEMENT_TYPES[e.type].char, e.parameters, now)

RenderPreview(e) ==
    Invoke(PROMPT_ELEMENT_TYPES[e.type].preview, e.parameters, now)

\* The assembled prompt string, last element first.
RECURSIVE AssembleReversed(_)
AssembleReversed(p) ==
    IF p = <<>>
    THEN <<>>
    ELSE AssembleReversed(Tail(p)) \o RenderChar(Head(p)).chars

\* The assembled prompt string: the renderChar() of every element, in
\* composition order.
RECURSIVE Assemble(_)
Assemble(p) ==
    IF p = <<>>
    THEN <<>>
    ELSE RenderChar(Head(p)).chars \o Assemble(Tail(p))

\* The composition with the elements at i and j exchanged.
Swapped(p, i, j) ==
    [k \in DOMAIN p |-> IF k = i THEN p[j] ELSE IF k = j THEN p[i] ELSE p[k]]

----------------------------------------------------------------------------
(* Bounds and input sets *)

\* The longest argument of RemoveBackspaces
MaxLen == 4
\* The longest text drawn from TextAlphabet
MaxTextLen == 3
\* The largest backspace count an element is given
MaxBackspaces == 1
\* The most elements a composed prompt holds
MaxElements == 2

StringsOver(alphabet, n) == UNION { [1..k -> alphabet] : k \in 0..n }

RBAlphabet == {"a", "b", "c", BS, NL, CR}
RBInputs == StringsOver(RBAlphabet, MaxLen)

TextAlphabet == {"$", BACKTICK, "\\", "!", "a"}
TextValues ==
    StringsOver(TextAlphabet, MaxTextLen)
        \cup { <<"$", "H", "O", "M", "E">>, <<"p", "l", "a", "i", "n">>,
               <<"a", "$", "b">>, <<"x", BACKTICK, "y">> }

\* Values of the parameters other than a text
VariableValues == { <<>>, <<"P", "A", "T", "H">> }
ParameterKeys == {"envvar", "command", "text"}

\* The objects passed to a generator
ArgsValues ==
    { [k \in {"text"} |-> v] : v \in TextValues }
        \cup UNION { [keys -> VariableValues] : keys \in SUBSET ParameterKeys }

\* Values typed into the parameter inputs of a composed prompt
PromptValues == { <<"a">>, <<"a", "a">> }

----------------------------------------------------------------------------
(* Initial values of the parts a specification leaves alone *)

Epoch == CHOOSE d \in Dates : d.year = 2023

RBIdle ==
    /\ arg = <<>> /\ str = <<>> /\ pc = "returned" /\ ncalls = 1
    /\ first = <<>>

GenIdle ==
    /\ call = [desc |-> 1, generator |-> "none", args |-> EmptyObject,
               result |-> Undefined]
    /\ now = Epoch

InstIdle == elem = PromptElement(1) /\ requested = 1 /\ op = "new"

PromptIdle == prompt = <<>>

----------------------------------------------------------------------------
(* RemoveBackspaces, statement by statement *)

InitRB ==
    /\ arg \in RBInputs
    /\ str = arg
    /\ pc = "while"
    /\ ncalls = 1
    /\ first = <<>>
    /\ GenIdle /\ InstIdle /\ PromptIdle

\* The loop condition holds: the body assigns str and control returns to
\* the condition.
RBLoopBody ==
    /\ pc = "while"
    /\ WhileIteration(str).pc = "while"
    /\ str' = WhileIteration(str).str
    /\ UNCHANGED <<arg, pc, ncalls, first, genVars, instVars, prompt>>

\* return str
RBReturn ==
    /\ pc = "while"
    /\ WhileIteration(str).pc = "return"
    /\ str' = WhileIteration(str).str
    /\ pc' = "returned"
    /\ UNCHANGED <<arg, ncalls, first, genVars, instVars, prompt>>

\* RemoveBackspaces(RemoveBackspaces(s)): the outer call starts on the
\* value the inner call returned.
RBCallOnResult ==
    /\ pc = "returned"
    /\ ncalls = 1
    /\ first' = str
    /\ arg' = str
    /\ str' = str
    /\ pc' = "while"
    /\ ncalls' = ncalls + 1
    /\ UNCHANGED <<genVars, instVars, prompt>>

NextRB == RBLoopBody \/ RBReturn \/ RBCallOnResult

SpecRB == InitRB /\ [][NextRB]_vars

\* A running call keeps running: the code is sequential.
FairSpecRB ==
    /\ InitRB /\ [][NextRB]_vars
    /\ WF_vars(RBLoopBody) /\ WF_vars(RBReturn) /\ WF_vars(RBCallOnResult)

----------------------------------------------------------------------------
(* Calls of the generators of a descriptor *)

InitGen ==
    /\ call \in [desc : DOMAIN PROMPT_ELEMENT_TYPES,
                 generator : {"none"},
                 args : ArgsValues,
                 result : {Undefined}]
    /\ now \in Dates
    /\ RBIdle /\ InstIdle /\ PromptIdle

\* descriptor.char(args)
CallChar ==
    /\ call.generator # "char"
    /\ call' = [call EXCEPT
                  !.generator = "char",
                  !.result = Invoke(PROMPT_ELEMENT_TYPES[call.desc].char,
                                    call.args, now)]
    /\ UNCHANGED <<now, rbVars, instVars, prompt>>

\* descriptor.preview(args)
CallPreview ==
    /\ call.generator # "preview"
    /\ call' = [call EXCEPT
                  !.generator = "preview",
                  !.result = Invoke(PROMPT_ELEMENT_TYPES[call.desc].preview,
                                    call.args, now)]
    /\ UNCHANGED <<now, rbVars, instVars, prompt>>

NextGen == CallChar \/ CallPreview

SpecGen == InitGen /\ [][NextGen]_vars

----------------------------------------------------------------------------
(* One PromptElement: construction and the field writes of the editor *)

InitInstance ==
    /\ \E t \in DOMAIN PROMPT_ELEMENT_TYPES :
          elem = PromptElement(t) /\ requested = t
    /\ op = "new"
    /\ RBIdle /\ GenIdle /\ PromptIdle

\* new PromptElement(type)
Construct(t) ==
    /\ elem' = PromptElement(t)
    /\ requested' = t
    /\ op' = "new"
    /\ UNCHANGED <<rbVars, genVars, prompt>>

\* element.parameters[id] = value, for an input of the descriptor's
\* parameters list
SetParameter(id, value) ==
    /\ id \in ParameterIds(elem.type)
    /\ elem' = [elem EXCEPT !.parameters = Assign(@, id, value)]
    /\ op' = "write"
    /\ UNCHANGED <<requested, rbVars, genVars, prompt>>

\* element.attributes[a] = !element.attributes[a]
ToggleAttribute(a) ==
    /\ elem' = [elem EXCEPT !.attributes[a] = ~@]
    /\ op' = "write"
    /\ UNCHANGED <<requested, rbVars, genVars, prompt>>

\* element.backspaces = n
SetBackspaces(n) ==
    /\ elem' = [elem EXCEPT !.backspaces = n]
    /\ op' = "write"
    /\ UNCHANGED <<requested, rbVars, genVars, prompt>>

\* element.foregroundColor = c
SetForegroundColor(c) ==
    /\ elem' = [elem EXCEPT !.foregroundColor = c]
    /\ op' = "write"
    /\ UNCHANGED <<requested, rbVars, genVars, prompt>>

\* element.backgroundColor = c
SetBackgroundColor(c) ==
    /\ elem' = [elem EXCEPT !.backgroundColor = c]
    /\ op' = "write"
    /\ UNCHANGED <<requested, rbVars, genVars, prompt>>

NextInstance ==
    \/ \E t \in DOMAIN PROMPT_ELEMENT_TYPES : Construct(t)
    \/ \E id \in ParameterKeys, v \in VariableValues : SetParameter(id, v)
    \/ \E a \in DisplayAttributes : ToggleAttribute(a)
    \/ \E n \in 0..MaxBackspaces : SetBackspaces(n)
    \/ \E c \in Colors \cup {Null} : SetForegroundColor(c)
    \/ \E c \in Colors \cup {Null} : SetBackgroundColor(c)

SpecInstance == InitInstance /\ [][NextInstance]_vars

----------------------------------------------------------------------------
(* The composed prompt *)

\* The styling fields do not enter renderChar(); they are written in
\* SpecInstance and stay at their defaults here.

InitPrompt == prompt = <<>> /\ RBIdle /\ GenIdle /\ InstIdle

\* An element of the palette is dropped at the end of the prompt.
AddElement(t) ==
    /\ Len(prompt) < MaxElements
    /\ prompt' = Append(prompt, PromptElement(t))
    /\ UNCHANGED <<rbVars, genVars, instVars>>

\* A parameter input of the element at i is edited.
SetElementParameter(i, id, value) ==
    /\ i \in DOMAIN prompt
    /\ id \in ParameterIds(prompt[i].type)
    /\ prompt' = [prompt EXCEPT ![i].parameters = Assign(@, id, value)]
    /\ UNCHANGED <<rbVars, genVars, instVars>>

\* The elements at i and j change places.
SwapElements(i, j) ==
    /\ i \in DOMAIN prompt /\ j \in DOMAIN prompt /\ i < j
    /\ prompt' = Swapped(prompt, i, j)
    /\ UNCHANGED <<rbVars, genVars, instVars>>

NextPrompt ==
    \/ \E t \in DOMAIN PROMPT_ELEMENT_TYPES : AddElement(t)
    \/ \E i \in 1..MaxElements, id \in ParameterKeys, v \in PromptValues :
          SetElementParameter(i, id, v)
    \/ \E i \in 1..MaxElements, j \in 1..MaxElements : SwapElements(i, j)

SpecPrompt == InitPrompt /\ [][NextPrompt]_vars

----------------------------------------------------------------------------
(* RemoveBackspaces: claims C1, C2, C6, C7 *)

\* s read from left to right, each backspace erasing the last character
\* that survived so far, if there is one.
RECURSIVE EraseLeftToRight(_, _)
EraseLeftToRight(kept, rest) ==
    IF rest = <<>>
    THEN kept
    ELSE IF Head(rest) = BS
         THEN EraseLeftToRight(SubSeq(kept, 1, Len(kept) - 1), Tail(rest))
         ELSE EraseLeftToRight(Append(kept, Head(rest)), Tail(rest))

Count(s, c) == Cardinality({ i \in 1..Len(s) : s[i] = c })

\* C1: the character a backspace erases may be any character, a newline
\* or a carriage return included: the value returned is the argument read
\* from left to right with every backspace erasing the last surviving
\* character. The code leaves a line terminator in front of a backspace
\* in place.
C1_AnyCharacterErased ==
    (pc = "returned" /\ ncalls = 1) => str = EraseLeftToRight(<<>>, arg)

\* The same for arguments without a line terminator, where it holds.
C1_ErasedUnlessLineTerminator ==
    (/\ pc = "returned" /\ ncalls = 1
     /\ \A i \in 1..Len(arg) : arg[i] \notin LineTerminators)
        => str = EraseLeftToRight(<<>>, arg)

\* C2: the value RemoveBackspaces returns holds no backspace.
C2_NoBackspaceInResult ==
    pc = "returned" => \A i \in 1..Len(str) : str[i] # BS

\* A call has returned a non-empty string for an argument with two
\* backspaces or more.
C2_Witness ==
    /\ pc = "returned" /\ ncalls = 1
    /\ Count(arg, BS) >= 2
    /\ str # <<>>

\* C6: the loop terminates. Every iteration makes str shorter, a call that
\* is running returns, and for an argument without a backspace the body
\* never runs and the argument is returned as it is.
C6_LoopTerminates ==
    /\ [][(pc = "while" /\ pc' = "while") => Len(str') < Len(str)]_vars
    /\ [][(pc = "while" /\ Count(arg, BS) = 0)
            => (pc' = "returned" /\ str' = arg)]_vars
    /\ [](pc = "while" => <>(pc = "returned"))

\* A call has returned after the body ran at least twice.
C6_Witness ==
    /\ pc = "returned" /\ ncalls = 1
    /\ Count(arg, BS) >= 2
    /\ Len(arg) - Len(str) >= 3

\* C7: RemoveBackspaces(RemoveBackspaces(s)) = RemoveBackspaces(s).
C7_Idempotent ==
    (pc = "returned" /\ ncalls = 2) => str = first

\* The outer call has returned, the inner one having returned two
\* characters or more.
C7_Witness ==
    pc = "returned" /\ ncalls = 2 /\ Len(first) >= 2

----------------------------------------------------------------------------
(* The generators: claims C3, C5, C8, C10 *)

Text == TypeNamed("Text")
EnvironmentVariable == TypeNamed("Environment Variable")

\* The value under id, the empty string when the key is absent
ValueOr(args, id) == IF id \in DOMAIN args THEN args[id] ELSE <<>>

\* The four characters the claim names
ShellSpecials == {"$", BACKTICK, "\\", "!"}

\* out is t with a backslash in front of every special character and
\* nothing else changed: the character i of t stands at position
\* i + (the number of special characters among the first i of t).
IsEscapingOf(out, t) ==
    LET at(i) == i + Cardinality({ j \in 1..i : t[j] \in ShellSpecials })
    IN  /\ Len(out) = Len(t)
                + Cardinality({ j \in 1..Len(t) : t[j] \in ShellSpecials })
        /\ \A i \in 1..Len(t) :
              /\ out[at(i)] = t[i]
              /\ t[i] \in ShellSpecials => out[at(i) - 1] = "\\"

\* C3: the char generator of Text returns the text with a backslash in
\* front of every $, backtick, backslash and !, the preview generator the
\* text as it is; for '$HOME' these are '\$HOME' and '$HOME'.
C3_TextEscaping ==
    call.desc = Text =>
        LET t == ValueOr(call.args, "text")
        IN  /\ call.generator = "char" =>
                 /\ call.result.type = "string"
                 /\ IsEscapingOf(call.result.chars, t)
                 /\ (\A i \in 1..Len(t) : t[i] \notin ShellSpecials)
                        => call.result.chars = t
                 /\ t = <<"$", "H", "O", "M", "E">>
                        => call.result.chars = <<"\\", "$", "H", "O", "M", "E">>
            /\ call.generator = "preview" => call.result = String(t)

\* The char generator of Text has been called on a text with two special
\* characters or more.
C3_Witness ==
    /\ call.desc = Text /\ call.generator = "char"
    /\ "text" \in DOMAIN call.args
    /\ Cardinality({ i \in 1..Len(call.args.text) :
                        call.args.text[i] \in ShellSpecials }) >= 2
    /\ Len(call.result.chars) = Len(call.args.text) + 2

\* args with every absent key of ParameterKeys set to the empty string
WithAbsentKeysEmpty(args) ==
    [k \in ParameterKeys |-> ValueOr(args, k)]

\* C5: every generator returns a string and does not throw, whatever keys
\* are missing; an absent key reads as the empty string (Text gives '' for
\* {}), and a generator made from a constant string returns that string.
C5_TotalOnMissingParameters ==
    call.generator # "none" =>
        LET d == PROMPT_ELEMENT_TYPES[call.desc]
            f == IF call.generator = "char" THEN d.char ELSE d.preview
        IN  /\ call.result.type = "string"
            /\ call.result = Invoke(f, WithAbsentKeysEmpty(call.args), now)
            /\ (call.desc = Text /\ call.args = EmptyObject)
                  => call.result = String(<<>>)
            /\ f.constant => call.result = String(f.chars)

\* Both generators of a descriptor with parameters have been called on {}.
C5_Witness ==
    /\ call.desc = Text /\ call.generator = "char"
    /\ call.args = EmptyObject
    /\ call.result = String(<<>>)

\* C8: the names of the catalog are non-empty and pairwise distinct, and
\* the parameter ids of a descriptor are pairwise distinct. Stated of the
\* descriptor in use, which ranges over the whole catalog.
C8_CatalogWellFormed ==
    LET d == PROMPT_ELEMENT_TYPES[call.desc]
    IN  /\ d.name # ""
        /\ \A u \in DOMAIN PROMPT_ELEMENT_TYPES :
              PROMPT_ELEMENT_TYPES[u].name = d.name => u = call.desc
        /\ \A k, l \in DOMAIN d.parameters :
              d.parameters[k].id = d.parameters[l].id => k = l

\* The last descriptor of the catalog, which has a parameter, is in use.
C8_Witness ==
    /\ call.desc = Len(PROMPT_ELEMENT_TYPES)
    /\ call.generator = "preview"
    /\ PROMPT_ELEMENT_TYPES[call.desc].parameters # <<>>

\* args without the keys that are not in ids
Restrict(args, ids) == [k \in DOMAIN args \cap ids |-> args[k]]

\* C10: a generator reads parameter values under the ids its descriptor
\* declares and no others, and Environment Variable renders the value
\* stored under envvar between two percent signs. The code reads
\* args.command, which the descriptor does not declare.
C10_DeclaredIdsOnly ==
    call.generator # "none" =>
        LET d == PROMPT_ELEMENT_TYPES[call.desc]
            f == IF call.generator = "char" THEN d.char ELSE d.preview
        IN  /\ call.result
                 = Invoke(f, Restrict(call.args, ParameterIds(call.desc)), now)
            /\ (/\ call.desc = EnvironmentVariable
                /\ call.generator = "char"
                /\ DOMAIN call.args \subseteq ParameterIds(call.desc))
                  => call.result
                        = String(<<"%">> \o ValueOr(call.args, "envvar")
                                 \o <<"%">>)

----------------------------------------------------------------------------
(* PromptElement: claim C9 *)

\* C9: a PromptElement just constructed refers to the descriptor it was
\* given, has the seven attributes false, no backspaces, no colors and no
\* parameters.
C9_FreshElement ==
    op = "new" =>
        /\ elem.type = requested
        /\ DOMAIN elem.attributes
              = {"bold", "dim", "italic", "underline", "blink", "reverse",
                 "overline"}
        /\ \A a \in DOMAIN elem.attributes : elem.attributes[a] = FALSE
        /\ elem.backspaces = 0
        /\ elem.foregroundColor = Null
        /\ elem.backgroundColor = Null
        /\ DOMAIN elem.parameters = {}

\* An element of the last descriptor of the catalog has just been
\* constructed.
C9_Witness ==
    op = "new" /\ requested = Len(PROMPT_ELEMENT_TYPES) /\ elem.type = requested

----------------------------------------------------------------------------
(* The composed prompt: claim C4 *)

\* The number of characters the elements before i contribute.
RECURSIVE Offset(_, _)
Offset(p, i) ==
    IF i = 1
    THEN 0
    ELSE Offset(p, i - 1) + Len(RenderChar(p[i - 1]).chars)

\* s is the renderChar() of the elements of p one after the other: each
\* stands at its offset, and nothing follows the last.
IsConcatenationInOrder(s, p) ==
    /\ Len(s) = Offset(p, Len(p) + 1)
    /\ \A i \in DOMAIN p :
          SubSeq(s, Offset(p, i) + 1, Offset(p, i + 1))
              = RenderChar(p[i]).chars

\* C4 as amended: the assembled string is the renderChar() of the elements
\* in composition order; exchanging two elements with equal renderChar()
\* keeps it, and exchanging two elements whose renderChar() differ and
\* have the same length changes it.
C4_OrderOfComposition ==
    [][/\ IsConcatenationInOrder(Assemble(prompt'), prompt')
       /\ \A i, j \in DOMAIN prompt :
            (i < j /\ prompt' = Swapped(prompt, i, j)) =>
                LET a == RenderChar(prompt[i]).chars
                    b == RenderChar(prompt[j]).chars
                IN  /\ a = b => Assemble(prompt') = Assemble(prompt)
                    /\ (a # b /\ Len(a) = Len(b))
                          => Assemble(prompt') # Assemble(prompt)]_vars

\* Two elements whose renderChar() differ stand in a prompt whose string
\* an exchange of the two would keep.
C4_Witness ==
    /\ Len(prompt) = 2
    /\ RenderChar(prompt[1]) # RenderChar(prompt[2])
    /\ RenderChar(prompt[1]).chars # <<>>
    /\ RenderChar(prompt[2]).chars # <<>>
    /\ Assemble(Swapped(prompt, 1, 2)) = Assemble(prompt)

\* C4 as stated: exchanging two elements changes the assembled string
\* unless their renderChar() are equal.
C4_SwapChangesUnlessEqual ==
    [][/\ IsConcatenationInOrder(Assemble(prompt'), prompt')
       /\ \A i, j \in DOMAIN prompt :
            (/\ i < j /\ prompt' = Swapped(prompt, i, j)
             /\ RenderChar(prompt[i]) # RenderChar(prompt[j]))
                => Assemble(prompt') # Assemble(prompt)]_vars

====
